---------------------------- MODULE Spec2Model ----------------------------
(***************************************************************************)
(* ACL injury risk scoring (backend/app/risk_calculator.py) and the        *)
(* real-time assessment endpoint (backend/app/risk_api.py).                *)
(*                                                                         *)
(* Python floats are modelled as exact rationals <<n, d>> in lowest terms  *)
(* with d > 0; every arithmetic step of the source is one rational         *)
(* operation here.  Python's None is the empty tuple.                      *)
(***************************************************************************)
EXTENDS Integers, Sequences, FiniteSets, TLC

(***************************************************************************)
(* Rational arithmetic (the float operators of the source).                *)
(***************************************************************************)
None == <<>>

Abs(x) == IF x < 0 THEN -x ELSE x

RECURSIVE GCD(_, _)
GCD(a, b) == IF b = 0 THEN a ELSE GCD(b, a % b)

\* n/d in lowest terms, d # 0
Frac(n, d) ==
    LET g == GCD(Abs(n), Abs(d))
        s == IF d < 0 THEN -1 ELSE 1
    IN  <<s * (n \div g), s * (d \div g)>>

R(n) == <<n, 1>>

\* the result of a float division by zero (Python raises ZeroDivisionError)
ZeroDivisionError == <<0, 0>>

RAdd(a, b) ==
    LET g == GCD(a[2], b[2])
    IN  Frac(a[1] * (b[2] \div g) + b[1] * (a[2] \div g), (a[2] \div g) * b[2])

RNeg(a) == <<-a[1], a[2]>>

RSub(a, b) == RAdd(a, RNeg(b))

RMul(a, b) ==
    LET g1 == GCD(Abs(a[1]), b[2])
        g2 == GCD(Abs(b[1]), a[2])
    IN  IF a[1] = 0 \/ b[1] = 0 THEN R(0)
        ELSE <<(a[1] \div g1) * (b[1] \div g2), (a[2] \div g2) * (b[2] \div g1)>>

RDiv(a, b) ==
    IF b[1] = 0 THEN ZeroDivisionError
    ELSE RMul(a, IF b[1] < 0 THEN <<-b[2], -b[1]>> ELSE <<b[2], b[1]>>)

RLt(a, b) == a[1] * b[2] < b[1] * a[2]

RLe(a, b) == a[1] * b[2] <= b[1] * a[2]

\* Python max(a, b) / min(a, b): the first argument wins a tie
RMax(a, b) == IF RLt(a, b) THEN b ELSE a

RMin(a, b) == IF RLt(b, a) THEN b ELSE a

\* Python int(x): truncation toward zero
RInt(a) == IF a[1] >= 0 THEN a[1] \div a[2] ELSE -((-a[1]) \div a[2])

Pow10(k) == IF k = 0 THEN 1 ELSE IF k = 1 THEN 10 ELSE IF k = 2 THEN 100 ELSE 1000

\* Python round(x, ndigits): nearest multiple of 10^-ndigits, a tie to the
\* even one; computed on the fractional part so that no product overflows
round(a, ndigits) ==
    LET p    == Pow10(ndigits)
        q    == a[1] \div a[2]
        r    == a[1] % a[2]
        t    == (p * r) \div a[2]
        r2   == (p * r) % a[2]
        base == q * p + t
        up   == IF 2 * r2 > a[2] THEN 1
                ELSE IF 2 * r2 < a[2] THEN 0
                ELSE base % 2
    IN  Frac(base + up, p)

\* Python truthiness of an optional number
Truthy(x) == x # None /\ x # R(0)

(***************************************************************************)
(* risk_calculator.py                                                      *)
(***************************************************************************)
\* mutant: the upper cap is dropped
clamp_no_upper(x, lo, hi) == RMax(lo, x)

clamp(x, lo, hi) == RMax(lo, RMin(hi, x))

clamp01(x) == clamp(x, R(0), R(1))

\* dict.get(key, default)
Get(d, k, default) == IF k \in DOMAIN d THEN d[k] ELSE default

\* mutant: the name is looked up as written
lower_identity(s) == s

\* str.lower() and str.title() on the sport names that occur
lower(s) ==
    CASE s = "Soccer" -> "soccer"
      [] s = "FOOTBALL" -> "football"
      [] s = "Basketball" -> "basketball"
      [] s = "RUNNING" -> "running"
      [] s = "Cycling" -> "cycling"
      [] s = "None" -> "none"
      [] s = "Rugby" -> "rugby"
      [] OTHER -> s

title(s) ==
    CASE s \in {"football", "FOOTBALL"} -> "Football"
      [] s \in {"soccer", "Soccer"} -> "Soccer"
      [] s = "basketball" -> "Basketball"
      [] s = "running" -> "Running"
      [] s = "cycling" -> "Cycling"
      [] s = "none" -> "None"
      [] s = "rugby" -> "Rugby"
      [] OTHER -> s

\* weights of the weighted sum
W_load == Frac(30, 100)
W_fatigue == Frac(25, 100)
W_intensity == Frac(15, 100)
W_bmi == Frac(10, 100)
W_history == Frac(10, 100)
\* mutant: pain weighted 10%
W_pain_ten == Frac(10, 100)
W_pain == Frac(5, 100)
\* mutant: sport multiplier 0.25
SportMultiplier_quarter == Frac(25, 100)
SportMultiplier == Frac(15, 100)
SexMultiplier == Frac(115, 100)

\* thresholds of the level mapping, on the 0-1 scale
LowBelow == Frac(30, 100)
ModerateBelow == Frac(60, 100)

sport_factors ==
    [football |-> Frac(25, 100), soccer |-> Frac(20, 100),
     basketball |-> Frac(18, 100), running |-> Frac(8, 100),
     cycling |-> Frac(3, 100), none |-> Frac(5, 100)]

avg_steps(features) == Get(features, "avg_steps_day", R(0))
avg_peak_minutes(features) == Get(features, "avg_peak_minutes_day", R(0))
avg_resting_hr(features) == Get(features, "avg_resting_hr", R(0))
avg_minutes_asleep(features) == Get(features, "avg_minutes_asleep", R(0))
weight_kg(features, user) ==
    Get(features, "weight_kg", Get(user, "weight_kg", R(70)))

height_cm(user) == Get(user, "height_cm", R(170))
height_m(user) == RDiv(height_cm(user), R(100))
sex(user) == Get(user, "sex", "M")
age(user) == Get(user, "age", R(25))

\* mutant: the guard tests height_m != 0
bmi_nonzero_guard(features, user) ==
    IF height_m(user) # R(0)
    THEN RDiv(weight_kg(features, user), RMul(height_m(user), height_m(user)))
    ELSE R(22)

bmi(features, user) ==
    IF RLt(R(0), height_m(user))
    THEN RDiv(weight_kg(features, user), RMul(height_m(user), height_m(user)))
    ELSE R(22)

\* mutant: age 30 falls in the younger bucket
baseline_hr_young_to_thirty(user) ==
    LET b == Get(user, "baseline_resting_hr", None)
    IN  IF ~Truthy(b)
        THEN IF sex(user) = "F"
             THEN (IF RLe(age(user), R(30)) THEN R(68) ELSE R(70))
             ELSE (IF RLe(age(user), R(30)) THEN R(63) ELSE R(65))
        ELSE b

baseline_hr(user) ==
    LET b == Get(user, "baseline_resting_hr", None)
    IN  IF ~Truthy(b)
        THEN IF sex(user) = "F"
             THEN (IF RLt(age(user), R(30)) THEN R(68) ELSE R(70))
             ELSE (IF RLt(age(user), R(30)) THEN R(63) ELSE R(65))
        ELSE b

\* mutant: the load is counted from 0 steps
load_index_from_zero(features) ==
    clamp01(RDiv(avg_steps(features), R(20000)))

load_index(features) ==
    clamp01(RDiv(RSub(avg_steps(features), R(5000)), R(20000 - 5000)))

intensity_index(features) == clamp01(RDiv(avg_peak_minutes(features), R(60)))

hr_present(features) == RLt(R(0), avg_resting_hr(features))

\* mutant: an unknown resting HR counts as no risk
hr_component_missing_zero(features, user) ==
    IF hr_present(features)
    THEN clamp01(RDiv(RSub(avg_resting_hr(features), baseline_hr(user)), R(8)))
    ELSE R(0)

hr_component(features, user) ==
    IF hr_present(features)
    THEN clamp01(RDiv(RSub(avg_resting_hr(features), baseline_hr(user)), R(8)))
    ELSE Frac(1, 2)

\* mutant: sleep counts as present from 8 hours on
sleep_present_eight_hours(features) == RLe(R(480), avg_minutes_asleep(features))

sleep_present(features) == RLt(R(0), avg_minutes_asleep(features))

sleep_component(features) ==
    IF sleep_present(features)
    THEN clamp01(RDiv(RSub(R(420), avg_minutes_asleep(features)), R(240)))
    ELSE Frac(1, 2)

\* missing_data as it stands after the fatigue block (line 104)
missing_signals(features) ==
    (IF hr_present(features) THEN <<>> ELSE <<"resting_heart_rate">>)
    \o (IF sleep_present(features) THEN <<>> ELSE <<"sleep_data">>)

\* mutant: the mean of the two signals
fatigue_index_mean(features, user) ==
    RDiv(RAdd(hr_component(features, user), sleep_component(features)), R(2))

fatigue_index(features, user) ==
    RMax(hr_component(features, user), sleep_component(features))

bmi_index(features, user) ==
    clamp01(RDiv(RSub(bmi(features, user), R(22)), R(35 - 22)))

acl_history_flag(user) == Get(user, "acl_history_flag", FALSE)

history_index(user) == IF acl_history_flag(user) THEN R(1) ELSE R(0)

knee_pain(user) == Get(user, "knee_pain_score", R(0))

pain_index(user) == clamp01(RDiv(knee_pain(user), R(10)))

sport(user) == lower(Get(user, "sport", "none"))

sport_risk(user) ==
    IF sport(user) \in DOMAIN sport_factors
    THEN sport_factors[sport(user)]
    ELSE Frac(5, 100)

sport_index(user) == RDiv(sport_risk(user), Frac(25, 100))

risk_raw(features, user) ==
    RAdd(RAdd(RAdd(RAdd(RAdd(
        RMul(W_load, load_index(features)),
        RMul(W_fatigue, fatigue_index(features, user))),
        RMul(W_intensity, intensity_index(features))),
        RMul(W_bmi, bmi_index(features, user))),
        RMul(W_history, history_index(user))),
        RMul(W_pain, pain_index(user)))

\* after the sport multiplier (line 150)
risk_sport_adjusted(features, user) ==
    clamp01(RMul(risk_raw(features, user),
                 RAdd(R(1), RMul(SportMultiplier, sport_index(user)))))

\* mutant: the sex adjustment is applied to 'M'
risk_adjusted_male(features, user) ==
    IF sex(user) = "M"
    THEN clamp01(RMul(risk_sport_adjusted(features, user), SexMultiplier))
    ELSE risk_sport_adjusted(features, user)

\* after the sex adjustment (lines 153-154)
risk_adjusted(features, user) ==
    IF sex(user) = "F"
    THEN clamp01(RMul(risk_sport_adjusted(features, user), SexMultiplier))
    ELSE risk_sport_adjusted(features, user)

risk_level(adjusted) ==
    IF RLt(adjusted, LowBelow) THEN "Low"
    ELSE IF RLt(adjusted, ModerateBelow) THEN "Moderate"
    ELSE "High"

risk_color(adjusted) ==
    IF RLt(adjusted, LowBelow) THEN "green"
    ELSE IF RLt(adjusted, ModerateBelow) THEN "yellow"
    ELSE "red"

\* mutant: the threshold is inclusive
low_activity_inclusive(features) == RLe(avg_steps(features), R(1000))

low_activity(features) == RLt(avg_steps(features), R(1000))

\* mutant: one missing signal already gives low
confidence_one_is_low(features) ==
    LET m == missing_signals(features)
        c == IF Len(m) >= 1 THEN "low" ELSE "high"
    IN  IF low_activity(features) THEN "low" ELSE c

confidence(features) ==
    LET m == missing_signals(features)
        c == IF Len(m) >= 2 THEN "low"
             ELSE IF Len(m) = 1 THEN "medium"
             ELSE "high"
    IN  IF low_activity(features) THEN "low" ELSE c

\* mutant: low activity is not recorded
missing_data_signals_only(features) == missing_signals(features)

missing_data(features) ==
    IF low_activity(features)
    THEN Append(missing_signals(features), "insufficient_activity_data")
    ELSE missing_signals(features)

\* the reported score on the 0-100 scale (line 190)
risk_score(features, user) ==
    round(RMul(risk_adjusted(features, user), R(100)), 1)

component(index, weight, description) ==
    [index |-> round(index, 3), weight |-> weight,
     contribution |-> round(RMul(index, weight), 3),
     description |-> description]

compute_risk_score(features, user) ==
    LET adjusted == risk_adjusted(features, user)
    IN  [risk_score |-> risk_score(features, user),
         risk_level |-> risk_level(adjusted),
         risk_color |-> risk_color(adjusted),
         confidence |-> confidence(features),
         missing_data |-> missing_data(features),
         components |->
           [load |-> component(load_index(features), W_load,
                       <<"Avg", RInt(avg_steps(features)), "steps/day">>),
            fatigue |-> component(fatigue_index(features, user), W_fatigue,
                       <<"HR", RInt(avg_resting_hr(features)), "Sleep",
                         round(RDiv(avg_minutes_asleep(features), R(60)), 1)>>),
            intensity |-> component(intensity_index(features), W_intensity,
                       <<RInt(avg_peak_minutes(features)), "peak min/day">>),
            bmi |-> component(bmi_index(features, user), W_bmi,
                       <<"BMI", round(bmi(features, user), 1)>>),
            history |-> component(history_index(user), W_history,
                       IF acl_history_flag(user) THEN <<"Previous ACL injury">>
                       ELSE <<"No ACL history">>),
            pain |-> component(pain_index(user), W_pain,
                       <<"Knee pain", knee_pain(user)>>),
            sport |-> [index |-> round(sport_index(user), 3),
                       multiplier |-> SportMultiplier,
                       description |-> <<"Sport", title(sport(user))>>]],
         metadata |->
           [bmi |-> round(bmi(features, user), 1),
            baseline_resting_hr |-> baseline_hr(user),
            sex |-> sex(user),
            age |-> age(user)]]

\* mutant: the five last entries
LastFive(q) == IF Len(q) <= 5 THEN q ELSE SubSeq(q, Len(q) - 4, Len(q))

\* recommendations[:5]
FirstFive(q) == IF Len(q) <= 5 THEN q ELSE SubSeq(q, 1, 5)

\* mutant: the urgent note from pain 9
UrgentPainFromNine == R(9)

\* knee pain from which the urgent note is given
UrgentPainFrom == R(5)

\* the list before it is cut: each note is named by its rule, with the
\* values its text formats
all_recommendations(risk_result, features, user) ==
    LET components == risk_result.components
        avg_sleep_hours == RDiv(Get(features, "avg_minutes_asleep", R(0)), R(60))
        bmi_meta == risk_result.metadata.bmi
        pain == Get(user, "knee_pain_score", R(0))
        sport_name == lower(Get(user, "sport", "none"))
        load_notes ==
            IF RLt(Frac(7, 10), components.load.index) THEN << <<"reduce_volume">> >>
            ELSE IF RLt(Frac(5, 10), components.load.index) THEN << <<"monitor_load">> >>
            ELSE <<>>
        fatigue_notes ==
            IF RLt(Frac(6, 10), components.fatigue.index)
            THEN (IF RLt(avg_sleep_hours, R(7))
                  THEN << <<"sleep", round(avg_sleep_hours, 1)>> >> ELSE <<>>)
                 \o << <<"rest_day">> >>
            ELSE <<>>
        intensity_notes ==
            IF RLt(Frac(7, 10), components.intensity.index)
            THEN << <<"active_recovery">> >> ELSE <<>>
        bmi_notes ==
            IF RLt(R(30), bmi_meta) THEN << <<"nutrition_high", bmi_meta>> >>
            ELSE IF RLt(bmi_meta, Frac(185, 10)) THEN << <<"nutrition_low", bmi_meta>> >>
            ELSE <<>>
        pain_notes ==
            IF RLe(UrgentPainFrom, pain) THEN << <<"urgent_pain", pain>> >>
            ELSE IF RLe(R(3), pain) THEN << <<"moderate_pain", pain>> >>
            ELSE <<>>
        history_notes ==
            IF Get(user, "acl_history_flag", FALSE) = TRUE
            THEN << <<"neuromuscular_training">> >>
                 \o (IF Get(user, "rehab_status", None) # "recovered"
                     THEN << <<"rehab_compliance">> >> ELSE <<>>)
            ELSE <<>>
        sport_notes ==
            IF sport_name \in {"football", "soccer", "basketball"}
            THEN << <<"landing_mechanics", title(sport_name)>> >> ELSE <<>>
        level_notes ==
            IF risk_result.risk_level = "High"
            THEN << <<"prevention_program">> >> ELSE <<>>
        confidence_notes ==
            IF risk_result.confidence = "low"
            THEN << <<"data_quality">> >> ELSE <<>>
    IN  load_notes \o fatigue_notes \o intensity_notes \o bmi_notes
        \o pain_notes \o history_notes \o sport_notes \o level_notes
        \o confidence_notes

generate_recommendations(risk_result, features, user) ==
    FirstFive(all_recommendations(risk_result, features, user))

(***************************************************************************)
(* models.py: the mapped columns, and risk_api.py                          *)
(***************************************************************************)
\* attributes an instance of models.User has (those the handlers read)
UserColumns == {"id", "fitbit_user_id", "is_active"}

\* attributes an instance of models.ActivityData has (those the handlers read)
ActivityColumns ==
    {"user_id", "date", "steps", "distance", "very_active_minutes",
     "resting_heart_rate", "sleep_duration_minutes", "calories"}

\* hasattr(obj, name)
hasattr(obj, name) == name \in DOMAIN obj

\* Python `a or b` on optional numbers
Or(a, b) == IF Truthy(a) THEN a ELSE b

\* Python `a or False` on a nullable Boolean column: None, <<TRUE>> or <<FALSE>>
OrFalse(a) == a = <<TRUE>>

\* Python `a or b` on optional strings
OrStr(a, b) == IF a # None /\ a # "" THEN a ELSE b

RECURSIVE SumOf(_, _)
SumOf(q, field) ==
    IF q = <<>> THEN R(0)
    ELSE RAdd(Or(Head(q)[field], R(0)), SumOf(Tail(q), field))

\* [d for d in q if d.field]
RECURSIVE Having(_, _)
Having(q, field) ==
    IF q = <<>> THEN <<>>
    ELSE (IF Truthy(Head(q)[field]) THEN <<Head(q)>> ELSE <<>>)
         \o Having(Tail(q), field)

\* order_by(ActivityData.date.desc()) of a set of rows with distinct dates
RECURSIVE ByDateDesc(_)
ByDateDesc(rows) ==
    IF rows = {} THEN <<>>
    ELSE LET latest == CHOOSE r \in rows : \A o \in rows : o.date <= r.date
         IN  <<latest>> \o ByDateDesc(rows \ {latest})

\* the rows of the last 7 days, most recent first (lines 37-41)
recent_activity(activity, uid, now) ==
    ByDateDesc({d \in activity : d.user_id = uid /\ d.date >= now - 7})

HTTP404 == [error |-> "HTTPException", status_code |-> 404]

AttributeError == [error |-> "AttributeError", status_code |-> 500]

InsufficientData ==
    [status |-> "insufficient_data",
     risk_score |-> None,
     risk_level |-> "Unknown",
     risk_color |-> "gray",
     confidence |-> "low",
     recommendations |-> << <<"connect_and_sync_3_days">>, <<"sync_same_email">> >>]

\* lines 62-75: the weekly aggregates of the rows
avg_steps_day(rows) == RDiv(SumOf(rows, "steps"), R(Len(rows)))

avg_peak_minutes_day(rows) == RDiv(SumOf(rows, "very_active_minutes"), R(Len(rows)))

avg_of_present(rows, field) ==
    LET present == Having(rows, field)
    IN  IF present # <<>> THEN RDiv(SumOf(present, field), R(Len(present))) ELSE R(0)

\* lines 78-82: the first row that has a truthy weight_kg
RECURSIVE latest_weight(_)
latest_weight(rows) ==
    IF rows = <<>> THEN None
    ELSE IF hasattr(Head(rows), "weight_kg") /\ Truthy(Head(rows).weight_kg)
         THEN Head(rows).weight_kg
         ELSE latest_weight(Tail(rows))

RECURSIVE CountOver(_, _)
CountOver(q, limit) ==
    IF q = <<>> THEN 0
    ELSE (IF RLt(limit, Or(Head(q).very_active_minutes, R(0))) THEN 1 ELSE 0)
         + CountOver(Tail(q), limit)

ProfileAttributes ==
    {"height_cm", "sex", "age", "sport", "acl_history_flag",
     "baseline_resting_hr", "knee_pain_score", "rehab_status"}

\* lines 58-183 for a user with at least 3 recent rows; reading an attribute
\* the instance does not have raises AttributeError
assess_rows(usr, rows, user_id) ==
    IF ~Truthy(latest_weight(rows)) /\ ~hasattr(usr, "weight_kg")
    THEN [response |-> AttributeError, invoked |-> <<>>]
    ELSE IF \E a \in ProfileAttributes : ~hasattr(usr, a)
    THEN [response |-> AttributeError, invoked |-> <<>>]
    ELSE
    LET weight == Or(Or(latest_weight(rows), usr.weight_kg), R(70))
        feats == [avg_steps_day |-> avg_steps_day(rows),
                  avg_peak_minutes_day |-> avg_peak_minutes_day(rows),
                  avg_resting_hr |-> avg_of_present(rows, "resting_heart_rate"),
                  avg_minutes_asleep |-> avg_of_present(rows, "sleep_duration_minutes"),
                  weight_kg |-> weight,
                  high_intensity_days |-> CountOver(rows, R(30))]
        user_profile == [height_cm |-> Or(usr.height_cm, R(170)),
                         sex |-> OrStr(usr.sex, "M"),
                         age |-> Or(usr.age, R(25)),
                         sport |-> OrStr(usr.sport, "none"),
                         acl_history_flag |-> OrFalse(usr.acl_history_flag),
                         baseline_resting_hr |-> usr.baseline_resting_hr,
                         knee_pain_score |-> Or(usr.knee_pain_score, R(0)),
                         rehab_status |-> usr.rehab_status,
                         weight_kg |-> weight]
        risk_result == compute_risk_score(feats, user_profile)
        latest == rows[1]
        pct(c) == round(RMul(risk_result.components[c].contribution, R(100)), 1)
    IN  [response |->
           [status |-> "success",
            user_id |-> user_id,
            data_days |-> Len(rows),
            risk_score |-> risk_result.risk_score,
            risk_level |-> risk_result.risk_level,
            risk_color |-> risk_result.risk_color,
            confidence |-> risk_result.confidence,
            missing_data |-> risk_result.missing_data,
            risk_components |->
              [load |-> pct("load"), fatigue |-> pct("fatigue"),
               intensity |-> pct("intensity"), bmi |-> pct("bmi"),
               history |-> pct("history"), pain |-> pct("pain")],
            component_details |-> risk_result.components,
            current_metrics |->
              [steps_today |-> Or(latest.steps, R(0)),
               heart_rate_avg |-> Or(latest.resting_heart_rate, R(0)),
               sleep_hours |-> round(RDiv(Or(latest.sleep_duration_minutes, R(0)), R(60)), 1),
               distance_km |-> round(Or(latest.distance, R(0)), 2)],
            recommendations |-> generate_recommendations(risk_result, feats, user_profile),
            metadata |-> risk_result.metadata,
            weekly_aggregates |->
              [avg_steps_day |-> round(feats.avg_steps_day, 0),
               avg_peak_minutes_day |-> round(feats.avg_peak_minutes_day, 1),
               avg_resting_hr |-> round(feats.avg_resting_hr, 1),
               avg_sleep_hours |-> round(RDiv(feats.avg_minutes_asleep, R(60)), 1),
               high_intensity_days |-> feats.high_intensity_days]],
         invoked |-> <<"compute_risk_score", "generate_recommendations">>]

\* GET /api/risk/realtime/{user_id}: the response, and the scoring functions
\* the handler invoked on the way
get_realtime_risk_assessment(user_rows, activity, now, user_id) ==
    LET found == {u \in user_rows : u.fitbit_user_id = user_id}
    IN  IF found = {} \/ ~(CHOOSE u \in found : TRUE).is_active
        THEN [response |-> HTTP404, invoked |-> <<>>]
        ELSE LET usr == CHOOSE u \in found : TRUE
                 rows == recent_activity(activity, usr.id, now)
             IN  IF rows = <<>> \/ Len(rows) < 3
                 THEN [response |-> InsufficientData, invoked |-> <<>>]
                 ELSE assess_rows(usr, rows, user_id)

(***************************************************************************)
(* State.  features, user, result, pc: one scoring call.  users,           *)
(* activity_data, today: the database and the date; request, response,     *)
(* invoked: the last request to the real-time endpoint, its response and   *)
(* the scoring functions the handler called.                               *)
(* recommendations, given, calls: the list generate_recommendations        *)
(* returned, the dictionaries as the caller passed them, and the finished  *)
(* calls of the scoring engine.                                            *)
(* storage, files, handler, downloads: the 'models' bucket of the artifact *)
(* store, the local directory models/, the requests to POST /predict/ in   *)
(* progress (one per worker) and the downloads made for each user.         *)
(* events: for each Fitbit account, the last connection event the          *)
(* database committed: a callback that stored the account's tokens, or a   *)
(* disconnect.                                                             *)
(***************************************************************************)
VARIABLES features, user, result, pc,
          users, activity_data, today, request, response, invoked,
          recommendations, given, calls,
          storage, files, handler, downloads,
          events

vars == <<features, user, result, pc,
          users, activity_data, today, request, response, invoked,
          recommendations, given, calls,
          storage, files, handler, downloads,
          events>>

call_vars == <<recommendations, given, calls>>

predict_vars == <<storage, files, handler, downloads>>

scoring_vars == <<features, user, result, pc>>

api_vars == <<users, activity_data, today, request, response, invoked, events>>

\* input values of the weekly aggregates and of the profile
StepsValues == {Frac(1999, 2), R(1000), R(5000), R(18040), R(25000)}
PeakValues == {R(0), R(90)}
RestingHrValues == {R(0), R(60), R(71)}
AsleepValues == {R(0), R(450)}
WeightValues == {R(88), R(160)}
HeightValues == {R(-200), R(0), R(200)}
SexValues == {"M", "F", "Other"}
AgeValues == {R(25), R(30)}
SportValues == {"football", "Soccer", "rugby"}
BaselineValues == {None, R(65)}
PainValues == {R(0), R(10)}

FeatureInputs ==
    [avg_steps_day : StepsValues, avg_peak_minutes_day : PeakValues,
     avg_resting_hr : RestingHrValues, avg_minutes_asleep : AsleepValues,
     weight_kg : WeightValues]

UserInputs ==
    [height_cm : HeightValues, sex : SexValues, age : AgeValues,
     sport : SportValues, acl_history_flag : BOOLEAN,
     baseline_resting_hr : BaselineValues, knee_pain_score : PainValues]

Init ==
    /\ features \in FeatureInputs
    /\ user \in UserInputs
    /\ result = None
    /\ pc = "ready"
    /\ users = {}
    /\ activity_data = {}
    /\ today = 0
    /\ request = None
    /\ response = None
    /\ invoked = <<>>
    /\ events = None
    /\ recommendations = None
    /\ given = None
    /\ calls = <<>>
    /\ storage = None
    /\ files = None
    /\ handler = None
    /\ downloads = None

\* one call of compute_risk_score(features, user)
ComputeRiskScore ==
    /\ pc = "ready"
    /\ result' = compute_risk_score(features, user)
    /\ pc' = "scored"
    /\ UNCHANGED <<features, user>>
    /\ UNCHANGED <<api_vars, call_vars, predict_vars>>

Next == ComputeRiskScore

Spec == Init /\ [][Next]_vars

(***************************************************************************)
(* The real-time endpoint over a stored database.                          *)
(***************************************************************************)
MaxUsers == 2
MaxRecords == 4

UserIds == 1..MaxUsers

FitbitId(i) == <<"fitbit", i>>

\* the stored users: each id is absent, disconnected or active
UserTables ==
    {{[id |-> i, fitbit_user_id |-> FitbitId(i), is_active |-> (st[i] = "active")] :
         i \in {j \in UserIds : st[j] # "absent"}} :
       st \in [UserIds -> {"absent", "inactive", "active"}]}

\* the stored row of user i that is k days old; every other day lacks
\* steps, resting heart rate and sleep
ActivityRow(i, now, k) ==
    [user_id |-> i, date |-> now - k,
     steps |-> IF k % 2 = 1 THEN None ELSE R(8000),
     distance |-> R(5),
     calories |-> R(2200),
     very_active_minutes |-> R(40),
     resting_heart_rate |-> IF k % 2 = 1 THEN None ELSE R(62),
     sleep_duration_minutes |-> IF k % 2 = 1 THEN None ELSE R(400)]

\* count[i] rows of the last days for each stored user, and possibly one
\* row older than the 7-day window
ActivityTables(user_rows, now) ==
    {{ActivityRow(p[1].id, now, p[2]) :
          p \in {q \in user_rows \X (0..(MaxRecords - 1)) : q[2] < count[q[1].id]}}
       \cup {ActivityRow(u.id, now, 8) : u \in {w \in user_rows : stale}} :
       count \in [UserIds -> 0..MaxRecords], stale \in BOOLEAN}

InitApi ==
    /\ today = 10
    /\ users \in UserTables
    /\ activity_data \in ActivityTables(users, today)
    /\ request = None
    /\ response = None
    /\ invoked = <<>>
    /\ events = None
    /\ features = None
    /\ user = None
    /\ result = None
    /\ pc = "idle"
    /\ recommendations = None
    /\ given = None
    /\ calls = <<>>
    /\ storage = None
    /\ files = None
    /\ handler = None
    /\ downloads = None

\* one request GET /api/risk/realtime/{user_id}, of a stored or unknown user
GetRealtimeRiskAssessment ==
    \E i \in 0..MaxUsers :
        LET out == get_realtime_risk_assessment(users, activity_data, today, FitbitId(i))
        IN  /\ request' = FitbitId(i)
            /\ response' = out.response
            /\ invoked' = out.invoked
            /\ UNCHANGED <<users, activity_data, today, events>>
            /\ UNCHANGED <<scoring_vars, call_vars, predict_vars>>

NextApi == GetRealtimeRiskAssessment

SpecApi == InitApi /\ [][NextApi]_vars

(***************************************************************************)
(* Connecting, disconnecting, syncing and assessing over one database.     *)
(***************************************************************************)
EmptyDict == [k \in {} |-> None]

\* the JSON documents of the Fitbit Web API for one day: the activities
\* document, the heart-rate time series and the sleep log
FitbitDay(steps, km, kcal, rhr, asleep) ==
    [activity |->
       [summary |-> [steps |-> steps,
                     distances |-> <<[activity |-> "total", distance |-> km]>>,
                     caloriesOut |-> kcal]],
     heart |->
       ("activities-heart" :> <<[value |-> [restingHeartRate |-> rhr]]>>),
     sleep |->
       [sleep |-> <<[isMainSleep |-> TRUE, minutesAsleep |-> asleep]>>,
        summary |-> [totalMinutesAsleep |-> asleep]]]

\* response.raise_for_status() raised for that day
HTTPStatusError == [error |-> "HTTPStatusError", status_code |-> 500]

FitbitDays == {FitbitDay(R(12000), R(9), R(2600), R(58), R(430)), HTTPStatusError}

\* FitbitDataService: what each getter hands to its caller
get_activity_summary(day) == day.activity.summary

get_heart_rate(day) ==
    LET data == day.heart
    IN  IF Get(data, "activities-heart", <<>>) # <<>>
        THEN Get(data["activities-heart"][1], "value", EmptyDict)
        ELSE EmptyDict

get_sleep(day) ==
    LET data == day.sleep
    IN  IF Get(data, "sleep", <<>>) # <<>> THEN data.sleep[1] ELSE EmptyDict

\* range(3): the days sync_and_assess fetches
SyncDays == 3

\* Fitbit's answers for today and the two days before: every request
\* succeeds, or those for the oldest day fail
FitbitAnswers ==
    {[i \in 0..(SyncDays - 1) |-> IF i < n THEN CHOOSE d \in FitbitDays : d # HTTPStatusError
                                    ELSE HTTPStatusError] :
       n \in {SyncDays - 1, SyncDays}}

\* the attribute values sync_and_assess takes from the three documents
synced_values(day) ==
    LET activity == get_activity_summary(day)
        heart == get_heart_rate(day)
        sleep == get_sleep(day)
        summary == Get(activity, "summary", EmptyDict)
    IN  [steps |-> Get(summary, "steps", R(0)),
         distance |-> Get(Get(summary, "distances", <<EmptyDict>>)[1], "distance", R(0)),
         calories |-> Get(summary, "caloriesOut", R(0)),
         heart_rate |->
           Get(Get(Get(heart, "activities-heart", <<EmptyDict>>)[1], "value", EmptyDict),
               "restingHeartRate", R(70)),
         sleep_minutes |-> Get(Get(sleep, "summary", EmptyDict), "totalMinutesAsleep", R(0))]

\* one pass of the loop body for the day `date`: a failed fetch or a
\* constructor that rejects a keyword is caught and the day is skipped; the
\* commit writes the mapped columns of the instance
sync_day(activity, uid, date, day) ==
    IF day = HTTPStatusError THEN activity
    ELSE
    LET v == synced_values(day)
        existing == {d \in activity : d.user_id = uid /\ d.date = date}
    IN  IF existing # {}
        THEN LET row == CHOOSE d \in existing : TRUE
                 assigned == [a \in DOMAIN row \cup DOMAIN v |->
                                 IF a \in DOMAIN v THEN v[a] ELSE row[a]]
                 stored == [c \in ActivityColumns |-> assigned[c]]
             IN  (activity \ {row}) \cup {stored}
        ELSE LET kwargs == {"user_id", "date"} \cup DOMAIN v
                 created == [c \in ActivityColumns |->
                                IF c = "user_id" THEN uid
                                ELSE IF c = "date" THEN date
                                ELSE IF c \in DOMAIN v THEN v[c]
                                ELSE None]
             IN  IF kwargs \subseteq ActivityColumns
                 THEN activity \cup {created}
                 ELSE activity

\* for i in range(3): date = today - timedelta(days=i)
RECURSIVE sync_days(_, _, _, _, _)
sync_days(activity, uid, now, fitbit, i) ==
    IF i = SyncDays THEN activity
    ELSE CHOOSE table \in {sync_days(after, uid, now, fitbit, i + 1) :
                              after \in {sync_day(activity, uid, now - i, fitbit[i])}} : TRUE

\* POST /api/risk/sync-and-assess/{user_id}: the response, the scoring
\* functions invoked and the activity table after the commit
sync_and_assess(user_rows, activity, now, user_id, token, fitbit) ==
    LET found == {u \in user_rows : u.fitbit_user_id = user_id}
    IN  IF found = {} \/ ~(CHOOSE u \in found : TRUE).is_active
        THEN [response |-> HTTP404, invoked |-> <<>>, activity |-> activity]
        ELSE IF token = "refresh_fails"
        THEN [response |-> HTTPStatusError, invoked |-> <<>>, activity |-> activity]
        ELSE LET usr == CHOOSE u \in found : TRUE
                 assessed(synced) ==
                    {[response |-> out.response, invoked |-> out.invoked, activity |-> synced] :
                        out \in {get_realtime_risk_assessment(user_rows, synced, now, user_id)}}
             IN  CHOOSE r \in UNION {assessed(synced) :
                                       synced \in {sync_days(activity, usr.id, now, fitbit, 0)}} : TRUE

\* the Fitbit accounts that may authorise the application; FitbitId(0)
\* never does
Accounts == {FitbitId(i) : i \in UserIds}

Requestable == {FitbitId(i) : i \in 0..MaxUsers}

\* the primary key the database gives the next inserted user
next_id(user_rows) ==
    IF user_rows = {} THEN 1
    ELSE (CHOOSE i \in {u.id : u \in user_rows} : \A u \in user_rows : u.id <= i) + 1

\* the stored users before any disconnect: is_active is True by default
ConnectedTables == {t \in UserTables : \A u \in t : u.is_active}

\* activity rows of the three days before today, as an earlier
\* POST /api/fitbit/sync left them, for some of the stored users
SyncedTables(user_rows, now) ==
    {{ActivityRow(u.id, now, k) : u \in {w \in user_rows : has[w.id]}, k \in 1..3} :
       has \in [UserIds -> BOOLEAN]}

InitAccounts ==
    /\ today = 10
    /\ users \in ConnectedTables
    /\ activity_data \in SyncedTables(users, today)
    /\ events = [f \in Requestable |->
                    IF \E u \in users : u.fitbit_user_id = f THEN "connected" ELSE "none"]
    /\ request = None
    /\ response = None
    /\ invoked = <<>>
    /\ features = None
    /\ user = None
    /\ result = None
    /\ pc = "idle"
    /\ recommendations = None
    /\ given = None
    /\ calls = <<>>
    /\ storage = None
    /\ files = None
    /\ handler = None
    /\ downloads = None

\* GET /api/fitbit/callback for the account f: the token exchange fails, or
\* the user is committed active and the profile request then fails, or all
\* of it succeeds
FitbitCallback ==
    \E f \in Accounts, outcome \in {"exchange_fails", "profile_fails", "ok"} :
        LET existing == {u \in users : u.fitbit_user_id = f}
            user_id == IF existing # {} THEN (CHOOSE u \in existing : TRUE).id
                       ELSE next_id(users)
            committed == (users \ existing)
                         \cup {[id |-> user_id, fitbit_user_id |-> f, is_active |-> TRUE]}
        IN  /\ request' = [endpoint |-> "callback", user_id |-> f, upstream |-> outcome]
            /\ users' = IF outcome = "exchange_fails" THEN users ELSE committed
            /\ response' = IF outcome = "ok"
                           THEN [redirect |-> "connected=true", user_id |-> user_id]
                           ELSE [redirect |-> "connected=false", user_id |-> None]
            /\ events' = IF outcome = "exchange_fails" THEN events
                         ELSE [events EXCEPT ![f] = "connected"]
            /\ invoked' = <<>>
            /\ UNCHANGED <<activity_data, today>>
            /\ UNCHANGED <<scoring_vars, call_vars, predict_vars>>

\* mutant: the disconnect leaves the user active
deactivated_still_active(usr) == usr

\* user.is_active = False
deactivated(usr) == [usr EXCEPT !.is_active = FALSE]

\* POST /api/fitbit/disconnect/{user_id}, by primary key
DisconnectFitbit ==
    \E id \in 1..(MaxUsers + 1) :
        LET found == {u \in users : u.id = id}
        IN  /\ request' = [endpoint |-> "disconnect", user_id |-> id, upstream |-> None]
            /\ invoked' = <<>>
            /\ IF found = {}
               THEN /\ response' = HTTP404
                    /\ UNCHANGED <<users, events>>
               ELSE LET usr == CHOOSE u \in found : TRUE
                    IN  /\ users' = (users \ {usr}) \cup {deactivated(usr)}
                        /\ response' = [message |-> "Fitbit disconnected successfully"]
                        /\ events' = [events EXCEPT ![usr.fitbit_user_id] = "disconnected"]
            /\ UNCHANGED <<activity_data, today>>
            /\ UNCHANGED <<scoring_vars, call_vars, predict_vars>>

\* GET /api/risk/realtime/{user_id}
RealtimeAssessment ==
    \E f \in Requestable :
        \E out \in {get_realtime_risk_assessment(users, activity_data, today, f)} :
            /\ request' = [endpoint |-> "realtime", user_id |-> f, upstream |-> None]
            /\ response' = out.response
            /\ invoked' = out.invoked
            /\ UNCHANGED <<users, activity_data, today, events>>
            /\ UNCHANGED <<scoring_vars, call_vars, predict_vars>>

\* POST /api/risk/sync-and-assess/{user_id}: the stored token is usable
\* (valid, or expired and refreshed) or the refresh fails; Fitbit answers
\* each day
SyncAndAssess ==
    \E f \in Requestable, token \in {"usable", "refresh_fails"},
       fitbit \in FitbitAnswers :
        \E out \in {sync_and_assess(users, activity_data, today, f, token, fitbit)} :
            /\ request' = [endpoint |-> "sync-and-assess", user_id |-> f,
                           upstream |-> [token |-> token, fitbit |-> fitbit]]
            /\ activity_data' = out.activity
            /\ response' = out.response
            /\ invoked' = out.invoked
            /\ UNCHANGED <<users, today, events>>
            /\ UNCHANGED <<scoring_vars, call_vars, predict_vars>>

NextAccounts ==
    \/ FitbitCallback
    \/ DisconnectFitbit
    \/ RealtimeAssessment
    \/ SyncAndAssess

SpecAccounts == InitAccounts /\ [][NextAccounts]_vars

(***************************************************************************)
(* routes/predict.py: POST /predict/, and the download of a model          *)
(* artifact (supabase_client.download_model_from_storage).                 *)
(***************************************************************************)
\* an exception leaving a call
Raised == [raised |-> TRUE]

IsRaised(x) == "raised" \in DOMAIN x

HTTP500 == [error |-> "HTTPException", status_code |-> 500]

\* what the bucket holds for a user, and what a local file holds
NoObject == [kind |-> "missing"]
Unreachable == [kind |-> "unreachable"]
Corrupt == [kind |-> "corrupt"]
Absent == [kind |-> "absent"]
Truncated == [kind |-> "truncated"]

\* an unpickled model: what predict and predict_proba do when called,
\* <<"raise">>, <<"return", value>> or, for predict_proba, <<"absent">>
Model(p, c) == [kind |-> "model", predict |-> p, predict_proba |-> c]

calculate_formula_risk(data) ==
    LET resting_hr == Or(data.resting_hr, R(70))
        active_minutes == Or(data.active_minutes, R(30))
        sleep_efficiency == Or(data.sleep_efficiency, R(85))
        knee == Or(data.knee_pain, R(0))
        risk == RAdd(RAdd(RAdd(RMul(Frac(4, 10), RDiv(resting_hr, R(100))),
                               RMul(Frac(3, 10), RDiv(active_minutes, R(60)))),
                          RMul(Frac(2, 10), RDiv(sleep_efficiency, R(100)))),
                     RMul(Frac(1, 10), RDiv(knee, R(10))))
        with_history == IF data.acl_history THEN RMul(risk, Frac(13, 10)) ELSE risk
    IN  RMin(RMax(with_history, R(0)), R(1))

\* mutant: one path shared by every user
local_model_path_shared(user_id) == <<"models", "model">>

\* the local file of a user's model
local_model_path(user_id) == <<"models", user_id>>

\* joblib.load of a local file
joblib_load(content) == IF content.kind = "model" THEN content ELSE Raised

\* model.predict, then model.predict_proba where the model has it
predict_with_model(model, data) ==
    IF model.predict[1] = "raise" THEN Raised
    ELSE [risk_score |-> model.predict[2],
          confidence |-> IF model.predict_proba[1] = "return"
                         THEN model.predict_proba[2] ELSE Frac(85, 100)]

get_risk_level(score) ==
    IF RLt(score, Frac(3, 10)) THEN "low"
    ELSE IF RLt(score, Frac(6, 10)) THEN "moderate"
    ELSE "high"

get_recommendations(score, data) ==
    (IF RLe(Frac(6, 10), score) THEN <<"high_risk", "reduce_intensity">> ELSE <<>>)
    \o (IF Truthy(data.knee_pain) /\ RLt(R(5), data.knee_pain)
        THEN <<"knee_pain", "avoid_high_impact">> ELSE <<>>)
    \o (IF Truthy(data.sleep_efficiency) /\ RLt(data.sleep_efficiency, R(75))
        THEN <<"poor_sleep", "sleep_hygiene">> ELSE <<>>)
    \o (IF Truthy(data.active_minutes) /\ RLt(R(90), data.active_minutes)
        THEN <<"high_volume", "active_recovery">> ELSE <<>>)
    \o (IF Truthy(data.resting_hr) /\ RLt(R(75), data.resting_hr)
        THEN <<"elevated_hr", "extra_rest_day">> ELSE <<>>)
    \o (IF data.acl_history THEN <<"neuromuscular", "hamstring">> ELSE <<>>)
    \o (IF RLt(score, Frac(3, 10)) THEN <<"low_risk">>
        ELSE IF RLt(score, Frac(6, 10)) THEN <<"moderate_risk">> ELSE <<>>)
    \o <<"prevention_basics">>

NoPrediction == [risk_score |-> None, confidence |-> None]

\* mutant: the exception of predict_with_model reaches the outer handler
try_predict_uncaught(model, data) ==
    IF model = None THEN NoPrediction ELSE predict_with_model(model, data)

\* lines 226-233: an exception of predict_with_model leaves risk_score None
try_predict(model, data) ==
    IF model = None THEN NoPrediction
    ELSE LET out == predict_with_model(model, data)
         IN  IF IsRaised(out) THEN NoPrediction ELSE out

\* predict_acl_risk once load_ml_model has returned model
predict_acl_risk(model, data) ==
    LET attempt == try_predict(model, data)
    IN  IF IsRaised(attempt) THEN HTTP500
        ELSE LET fallback == attempt.risk_score = None
                 score == IF fallback THEN calculate_formula_risk(data)
                          ELSE attempt.risk_score
                 conf == IF fallback THEN None ELSE attempt.confidence
             IN  [user_id |-> data.user_id,
                  risk_score |-> round(score, 3),
                  risk_level |-> get_risk_level(score),
                  method |-> IF fallback THEN "formula" ELSE "ml_model",
                  confidence |-> IF Truthy(conf) THEN round(conf, 3) ELSE None,
                  recommendations |-> get_recommendations(score, data)]

(***************************************************************************)
(* POST /predict/ served by workers that share the bucket and the local    *)
(* directory models/.                                                      *)
(***************************************************************************)
MaxServed == 3

\* two workers of the server
Workers == {"w1", "w2"}

PredictUsers == {"u1", "u2"}

\* the artifacts a bucket may hold
GoodModel == Model(<<"return", Frac(45, 100)>>, <<"return", Frac(9, 10)>>)
WildModel == Model(<<"return", Frac(17, 10)>>, <<"raise">>)
FailingModel == Model(<<"raise">>, <<"absent">>)

StoredObjects ==
    {NoObject, Unreachable, Corrupt, GoodModel, WildModel, FailingModel}

\* request bodies: metrics just under the low threshold, and a heavy week
\* with pain, ACL history and no sleep figure
Payloads ==
    {[active_minutes |-> R(1), resting_hr |-> Frac(732, 10), sleep_efficiency |-> R(1),
      acl_history |-> FALSE, knee_pain |-> R(0)],
     [active_minutes |-> R(120), resting_hr |-> R(90), sleep_efficiency |-> None,
      acl_history |-> TRUE, knee_pain |-> R(8)]}

PredictRequest(u, p) ==
    [user_id |-> u, steps |-> None, active_minutes |-> p.active_minutes,
     resting_hr |-> p.resting_hr, peak_hr_minutes |-> None,
     sleep_efficiency |-> p.sleep_efficiency, minutes_asleep |-> None,
     weight |-> None, sport_type |-> None, acl_history |-> p.acl_history,
     knee_pain |-> p.knee_pain]

PredictRequests == {PredictRequest(u, p) : u \in PredictUsers, p \in Payloads}

LocalPaths == {local_model_path(u) : u \in PredictUsers}

Idle ==
    [pc |-> "idle", data |-> None, fetched |-> None, model |-> None,
     response |-> None, served |-> 0, overlapped |-> {}]

Active(h) == handler[h].pc \notin {"idle", "done"}

\* the requests taken so far
RECURSIVE Served(_)
Served(ws) ==
    IF ws = {} THEN 0
    ELSE LET w == CHOOSE x \in ws : TRUE
         IN  handler[w].served + Served(ws \ {w})

InitPredict ==
    /\ storage \in [PredictUsers -> StoredObjects]
    /\ files = [path \in LocalPaths |-> Absent]
    /\ handler = [h \in Workers |-> Idle]
    /\ downloads = [u \in PredictUsers |-> 0]
    /\ features = None
    /\ user = None
    /\ result = None
    /\ pc = "idle"
    /\ users = {}
    /\ activity_data = {}
    /\ today = 0
    /\ request = None
    /\ response = None
    /\ invoked = <<>>
    /\ events = None
    /\ recommendations = None
    /\ given = None
    /\ calls = <<>>

OtherVarsUnchanged ==
    UNCHANGED <<scoring_vars, api_vars, call_vars>>

\* a worker takes a request; the requests in progress now overlap it
Receive(h) ==
    /\ ~Active(h)
    /\ Served(Workers) < MaxServed
    /\ \E data \in PredictRequests :
         handler' =
           [g \in Workers |->
              IF g = h
              THEN [pc |-> "download", data |-> data, fetched |-> None,
                    model |-> None, response |-> None,
                    served |-> handler[h].served + 1,
                    overlapped |-> {handler[k].data.user_id :
                                      k \in {w \in Workers : w # h /\ Active(w)}}]
              ELSE IF Active(g)
                   THEN [handler[g] EXCEPT !.overlapped = @ \cup {data.user_id}]
                   ELSE handler[g]]
    /\ UNCHANGED <<storage, files, downloads>>
    /\ OtherVarsUnchanged

\* load_ml_model, line 105: the bucket is asked for the user's artifact
Download(h) ==
    LET uid == handler[h].data.user_id
    IN  /\ handler[h].pc = "download"
        /\ downloads' = [downloads EXCEPT ![uid] = @ + 1]
        /\ handler' =
             IF storage[uid].kind \in {"missing", "unreachable"}
             THEN [handler EXCEPT ![h].pc = "predict", ![h].model = None]
             ELSE [handler EXCEPT ![h].pc = "open", ![h].fetched = storage[uid]]
        /\ UNCHANGED <<storage, files>>
        /\ OtherVarsUnchanged

\* open(local_path, 'wb') truncates the local file
OpenLocal(h) ==
    /\ handler[h].pc = "open"
    /\ files' = [files EXCEPT ![local_model_path(handler[h].data.user_id)] = Truncated]
    /\ handler' = [handler EXCEPT ![h].pc = "write"]
    /\ UNCHANGED <<storage, downloads>>
    /\ OtherVarsUnchanged

\* f.write(result)
WriteLocal(h) ==
    /\ handler[h].pc = "write"
    /\ files' = [files EXCEPT ![local_model_path(handler[h].data.user_id)] =
                                 handler[h].fetched]
    /\ handler' = [handler EXCEPT ![h].pc = "load"]
    /\ UNCHANGED <<storage, downloads>>
    /\ OtherVarsUnchanged

\* lines 107-114: joblib.load, any exception gives None
JoblibLoad(h) ==
    LET loaded == joblib_load(files[local_model_path(handler[h].data.user_id)])
    IN  /\ handler[h].pc = "load"
        /\ handler' = [handler EXCEPT ![h].pc = "predict",
                                      ![h].model = IF IsRaised(loaded) THEN None
                                                   ELSE loaded]
        /\ UNCHANGED <<storage, files, downloads>>
        /\ OtherVarsUnchanged

\* lines 226-252: prediction or formula, level, recommendations, response
Respond(h) ==
    /\ handler[h].pc = "predict"
    /\ handler' = [handler EXCEPT ![h].pc = "done",
                                  ![h].response =
                                      predict_acl_risk(handler[h].model, handler[h].data)]
    /\ UNCHANGED <<storage, files, downloads>>
    /\ OtherVarsUnchanged

NextPredict ==
    \E h \in Workers :
        \/ Receive(h)
        \/ Download(h)
        \/ OpenLocal(h)
        \/ WriteLocal(h)
        \/ JoblibLoad(h)
        \/ Respond(h)

SpecPredict == InitPredict /\ [][NextPredict]_vars

(***************************************************************************)
(* Successive calls of the scoring engine: compute_risk_score, then        *)
(* generate_recommendations on its result, on dictionaries the caller      *)
(* keeps.                                                                  *)
(***************************************************************************)
MaxCalls == 3

\* mutant: the dictionary after d.setdefault(key, default)
dict_setdefault_effect(d, key, default) ==
    IF key \in DOMAIN d THEN d ELSE d @@ (key :> default)

\* the dictionary after d.get(key, default)
dict_get_effect(d, key, default) == d

RECURSIVE after_gets(_, _)
after_gets(d, reads) ==
    IF reads = <<>> THEN d
    ELSE after_gets(dict_get_effect(d, Head(reads)[1], Head(reads)[2]), Tail(reads))

\* the keys compute_risk_score reads, with their defaults
FeatureReads ==
    << <<"avg_steps_day", R(0)>>, <<"avg_peak_minutes_day", R(0)>>,
       <<"avg_resting_hr", R(0)>>, <<"avg_minutes_asleep", R(0)>>,
       <<"weight_kg", R(70)>> >>

UserReads ==
    << <<"weight_kg", R(70)>>, <<"height_cm", R(170)>>, <<"sex", "M">>,
       <<"age", R(25)>>, <<"baseline_resting_hr", None>>,
       <<"acl_history_flag", FALSE>>, <<"knee_pain_score", R(0)>>,
       <<"sport", "none">> >>

\* the keys generate_recommendations reads
RecommendationFeatureReads(risk_result) ==
    IF RLt(Frac(6, 10), risk_result.components.fatigue.index)
    THEN << <<"avg_minutes_asleep", R(0)>> >> ELSE <<>>

RecommendationUserReads(u) ==
    << <<"knee_pain_score", R(0)>>, <<"acl_history_flag", None>> >>
    \o (IF Get(u, "acl_history_flag", FALSE) = TRUE
        THEN << <<"rehab_status", None>> >> ELSE <<>>)
    \o << <<"sport", "none">> >>

\* Scenario A and Scenario B of the specification
ScenarioFeatures ==
    [avg_steps_day |-> R(10000), avg_peak_minutes_day |-> R(30),
     avg_resting_hr |-> R(65), avg_minutes_asleep |-> R(450), weight_kg |-> R(70)]

ScenarioAUser ==
    [height_cm |-> R(175), sex |-> "M", age |-> R(25), sport |-> "none",
     acl_history_flag |-> FALSE, baseline_resting_hr |-> R(65),
     knee_pain_score |-> R(0)]

ScenarioBUser ==
    [ScenarioAUser EXCEPT !.knee_pain_score = R(8), !.acl_history_flag = TRUE,
                          !.sport = "football", !.sex = "F"]

\* the first call's inputs: the scenarios and their neighbours
CallFeatures ==
    [avg_steps_day : {R(10000), R(25000)}, avg_peak_minutes_day : {R(30), R(90)},
     avg_resting_hr : {R(65), R(90)}, avg_minutes_asleep : {R(450), R(300)},
     weight_kg : {R(70), R(98)}]

CallUsers ==
    [height_cm : {R(175)}, sex : {"M", "F"}, age : {R(25)},
     sport : {"none", "football"}, acl_history_flag : BOOLEAN,
     baseline_resting_hr : {R(65)}, knee_pain_score : {R(0), R(8)}]

\* the inputs of a later call
RepeatInputs ==
    {<<ScenarioFeatures, ScenarioAUser>>, <<ScenarioFeatures, ScenarioBUser>>}

InitCalls ==
    /\ features \in CallFeatures
    /\ user \in CallUsers
    /\ given = <<features, user>>
    /\ result = None
    /\ recommendations = None
    /\ calls = <<>>
    /\ pc = "ready"
    /\ users = {}
    /\ activity_data = {}
    /\ today = 0
    /\ request = None
    /\ response = None
    /\ invoked = <<>>
    /\ events = None
    /\ storage = None
    /\ files = None
    /\ handler = None
    /\ downloads = None

\* result = compute_risk_score(features, user)
CallComputeRiskScore ==
    /\ pc = "ready"
    /\ result' = compute_risk_score(features, user)
    /\ features' = after_gets(features, FeatureReads)
    /\ user' = after_gets(user, UserReads)
    /\ pc' = "scored"
    /\ UNCHANGED <<recommendations, given, calls>>
    /\ UNCHANGED <<api_vars, predict_vars>>

\* recommendations = generate_recommendations(result, features, user)
CallGenerateRecommendations ==
    /\ pc = "scored"
    /\ recommendations' = generate_recommendations(result, features, user)
    /\ features' = after_gets(features, RecommendationFeatureReads(result))
    /\ user' = after_gets(user, RecommendationUserReads(user))
    /\ calls' = Append(calls, [features |-> given[1], user |-> given[2],
                               result |-> result,
                               recommendations |-> recommendations'])
    /\ pc' = "done"
    /\ UNCHANGED <<result, given>>
    /\ UNCHANGED <<api_vars, predict_vars>>

\* the caller calls again, with a scenario or with the first call's inputs
NextCall ==
    /\ pc = "done"
    /\ Len(calls) < MaxCalls
    /\ \E input \in RepeatInputs \cup {<<calls[1].features, calls[1].user>>} :
          /\ features' = input[1]
          /\ user' = input[2]
          /\ given' = input
    /\ result' = None
    /\ recommendations' = None
    /\ pc' = "ready"
    /\ UNCHANGED calls
    /\ UNCHANGED <<api_vars, predict_vars>>

NextCalls ==
    \/ CallComputeRiskScore
    \/ CallGenerateRecommendations
    \/ NextCall

SpecCalls == InitCalls /\ [][NextCalls]_vars

(***************************************************************************)
(* Properties of compute_risk_score.                                       *)
(***************************************************************************)
Scored == pc = "scored"

SeqToSet(q) == {q[i] : i \in 1..Len(q)}

InUnit(x) == RLe(R(0), x) /\ RLe(x, R(1))

ComponentNames ==
    {"load", "fatigue", "intensity", "bmi", "history", "pain", "sport"}

WeightedNames == ComponentNames \ {"sport"}

AssessmentFields ==
    {"risk_score", "risk_level", "risk_color", "confidence", "missing_data",
     "components", "metadata"}

\* the result is a RiskAssessment with every field and a score
CompleteAssessment(r) ==
    /\ DOMAIN r = AssessmentFields
    /\ DOMAIN r.components = ComponentNames
    /\ r.risk_level \in {"Low", "Moderate", "High"}
    /\ r.confidence \in {"high", "medium", "low"}

ValidInputs ==
    /\ RLe(R(0), features.avg_steps_day)
    /\ RLe(R(0), features.avg_peak_minutes_day)
    /\ RLt(R(0), features.weight_kg)
    /\ RLt(R(0), user.height_cm)
    /\ RLe(R(0), user.knee_pain_score) /\ RLe(user.knee_pain_score, R(10))

\* C1: for valid inputs the returned risk_score lies in [0,100] and the index
\* of each of the seven components lies in [0,1].
C1_ScoreAndIndicesBounded ==
    (Scored /\ ValidInputs) =>
        /\ RLe(R(0), result.risk_score) /\ RLe(result.risk_score, R(100))
        /\ \A c \in ComponentNames : InUnit(result.components[c].index)

C1_Witness ==
    /\ Scored /\ ValidInputs
    /\ result.components.load.index = R(1)
    /\ result.components.bmi.index = R(1)
    /\ result.components.fatigue.index = R(0)
    /\ RLt(R(50), result.risk_score)

RECURSIVE SumWeights(_, _)
SumWeights(components, names) ==
    IF names = {} THEN R(0)
    ELSE LET c == CHOOSE n \in names : TRUE
         IN  RAdd(components[c].weight, SumWeights(components, names \ {c}))

AllSixIndicesOne ==
    /\ load_index(features) = R(1)
    /\ fatigue_index(features, user) = R(1)
    /\ intensity_index(features) = R(1)
    /\ bmi_index(features, user) = R(1)
    /\ history_index(user) = R(1)
    /\ pain_index(user) = R(1)

\* C2 as stated: the six component weights sum to exactly 1.0, so that all
\* six indices at 1 give a raw score of 1.0.
C2_WeightsSumToOne ==
    Scored =>
        /\ SumWeights(result.components, WeightedNames) = R(1)
        /\ AllSixIndicesOne => risk_raw(features, user) = R(1)

\* C2 amended: the six component weights sum to exactly 0.95, so that all six
\* indices at 1 give a raw score of 0.95.
C2_WeightsSum ==
    Scored =>
        /\ SumWeights(result.components, WeightedNames) = Frac(95, 100)
        /\ AllSixIndicesOne => risk_raw(features, user) = Frac(95, 100)

C2_Witness == Scored /\ AllSixIndicesOne /\ result.risk_score = R(100)

LevelOfScore(score) ==
    IF RLt(score, R(30)) THEN <<"Low", "green">>
    ELSE IF RLt(score, R(60)) THEN <<"Moderate", "yellow">>
    ELSE <<"High", "red">>

\* C3: the reported risk_level and risk_color agree with the reported
\* risk_score: < 30 Low/green, 30 <= score < 60 Moderate/yellow, >= 60 High/red.
C3_LevelAgreesWithScore ==
    Scored => <<result.risk_level, result.risk_color>> = LevelOfScore(result.risk_score)

ScoreWithSex(s) == risk_score(features, [user EXCEPT !.sex = s])

\* C4 as stated: with everything else identical (also without a baseline
\* resting HR in the profile) the score for sex F is >= the score for sex M.
C4_FemaleNotLower ==
    Scored => RLe(ScoreWithSex("M"), ScoreWithSex("F"))

\* C4 amended: when the profile gives a baseline resting HR, the score for
\* sex F is >= the score for sex M with everything else identical.
C4_FemaleNotLowerGivenBaseline ==
    (Scored /\ Truthy(user.baseline_resting_hr)) =>
        RLe(ScoreWithSex("M"), ScoreWithSex("F"))

C4_Witness ==
    /\ Scored /\ Truthy(user.baseline_resting_hr) /\ user.sex = "F"
    /\ result.risk_score = ScoreWithSex("F")
    /\ RLt(ScoreWithSex("M"), result.risk_score)

ConfidenceOfCount(n) ==
    IF n = 0 THEN "high" ELSE IF n = 1 THEN "medium" ELSE "low"

Rank(c) == IF c = "high" THEN 2 ELSE IF c = "medium" THEN 1 ELSE 0

\* the inputs with one more signal made missing
OneMoreMissing ==
    {[features EXCEPT !.avg_resting_hr = R(0)],
     [features EXCEPT !.avg_minutes_asleep = R(0)],
     [features EXCEPT !.avg_steps_day = Frac(1999, 2)]}

NeverImproves ==
    \A f \in OneMoreMissing :
        Rank(confidence(f)) <= Rank(result.confidence)

\* C5 as stated: confidence is determined by the number of entries in
\* missing_data (0 high, 1 medium, >= 2 low) and one more missing entry never
\* improves it.
C5_ConfidenceByCount ==
    Scored =>
        /\ result.confidence = ConfidenceOfCount(Len(result.missing_data))
        /\ NeverImproves

\* C5 amended: unless avg_steps_day < 1000, confidence is determined by the
\* number of entries in missing_data (0 high, 1 medium, >= 2 low); when
\* avg_steps_day < 1000 it is low whatever the number; one more missing
\* entry never improves it.
C5_ConfidenceByCountUnlessLowActivity ==
    Scored =>
        /\ result.confidence =
              IF RLt(features.avg_steps_day, R(1000)) THEN "low"
              ELSE ConfidenceOfCount(Len(result.missing_data))
        /\ NeverImproves

C5_Witness ==
    /\ Scored
    /\ ~RLt(features.avg_steps_day, R(1000))
    /\ Len(result.missing_data) = 1
    /\ result.confidence = "medium"

\* C6: avg_steps_day < 1000 gives confidence low and insufficient_activity_data
\* in missing_data whatever the other signals; avg_steps_day >= 1000 never
\* puts insufficient_activity_data in missing_data.
C6_LowActivityForcesLow ==
    Scored =>
        IF RLt(features.avg_steps_day, R(1000))
        THEN /\ result.confidence = "low"
             /\ "insufficient_activity_data" \in SeqToSet(result.missing_data)
        ELSE "insufficient_activity_data" \notin SeqToSet(result.missing_data)

C6_Witness ==
    /\ Scored
    /\ RLt(features.avg_steps_day, R(1000))
    /\ RLt(R(0), features.avg_resting_hr)
    /\ RLt(R(0), features.avg_minutes_asleep)
    /\ result.confidence = "low"
    /\ result.missing_data = <<"insufficient_activity_data">>

\* C7: a missing signal never blocks scoring: resting HR 0 gives the HR
\* sub-component 0.5 and records resting_heart_rate, sleep 0 gives the sleep
\* sub-component 0.5 and records sleep_data, the result is a complete
\* RiskAssessment, and with both at 0 confidence is low.
C7_MissingSignalDoesNotBlock ==
    Scored =>
        /\ features.avg_resting_hr = R(0) =>
              /\ hr_component(features, user) = Frac(1, 2)
              /\ "resting_heart_rate" \in SeqToSet(result.missing_data)
        /\ features.avg_minutes_asleep = R(0) =>
              /\ sleep_component(features) = Frac(1, 2)
              /\ "sleep_data" \in SeqToSet(result.missing_data)
        /\ (features.avg_resting_hr = R(0) \/ features.avg_minutes_asleep = R(0)) =>
              /\ CompleteAssessment(result)
              /\ RLe(Frac(1, 2), result.components.fatigue.index)
        /\ (features.avg_resting_hr = R(0) /\ features.avg_minutes_asleep = R(0)) =>
              /\ result.confidence = "low"
              /\ result.components.fatigue.index = Frac(1, 2)

C7_Witness ==
    /\ Scored
    /\ features.avg_resting_hr = R(0) /\ features.avg_minutes_asleep = R(0)
    /\ ~RLt(features.avg_steps_day, R(1000))
    /\ result.missing_data = <<"resting_heart_rate", "sleep_data">>
    /\ result.confidence = "low"

\* C9: a profile with an out-of-range field (a height_cm <= 0) is rejected
\* before the BMI is computed: no RiskAssessment with a score is returned.
C9_InvalidProfileRejected ==
    (Scored /\ RLe(user.height_cm, R(0))) => "risk_score" \notin DOMAIN result

\* C10: for every height_cm <= 0 no division by zero happens and the BMI is
\* 22: the bmi index is 0 and metadata.bmi is 22.
C10_NonPositiveHeightFallback ==
    (Scored /\ RLe(user.height_cm, R(0))) =>
        /\ bmi(features, user) = R(22)
        /\ CompleteAssessment(result)
        /\ result.components.bmi.index = R(0)
        /\ result.metadata.bmi = R(22)

C10_Witness ==
    /\ Scored
    /\ RLt(user.height_cm, R(0))
    /\ features.weight_kg = R(160)
    /\ result.metadata.bmi = R(22)
    /\ result.components.bmi.index = R(0)

(***************************************************************************)
(* Properties of get_realtime_risk_assessment.                             *)
(***************************************************************************)
Answered == request # None

\* the stored active user the last request names, if any
RequestedActive == {u \in users : u.fitbit_user_id = request /\ u.is_active}

RecentCount(u) == Len(recent_activity(activity_data, u.id, today))

\* C8: for an active user with fewer than 3 records of the last 7 days the
\* endpoint answers insufficient_data with a null risk_score and the generic
\* recommendations, without raising and without invoking compute_risk_score
\* or generate_recommendations; with 3 or more records it answers success
\* with a computed score.
C8_InsufficientDataOrSuccess ==
    Answered =>
        \A u \in RequestedActive :
            IF RecentCount(u) < 3
            THEN /\ response = InsufficientData
                 /\ invoked = <<>>
            ELSE /\ Get(response, "status", None) = "success"
                 /\ Get(response, "risk_score", None) # None

(***************************************************************************)
(* Properties of POST /predict/.                                           *)
(***************************************************************************)
Done(h) == handler[h].pc = "done"

\* a model was loaded and its predict returned
PredictionSucceeded(h) ==
    /\ handler[h].model # None
    /\ handler[h].model.predict[1] = "return"

IsPredictResponse(r) == "method" \in DOMAIN r

\* C11: a failure to load the model or to run it is answered with the
\* formula score, never with an error; method is 'ml_model' exactly when a
\* model was loaded and its prediction succeeded, 'formula' otherwise.
C11_PredictorFailureFallsBack ==
    \A h \in Workers :
        Done(h) =>
            LET r == handler[h].response
            IN  /\ IsPredictResponse(r)
                /\ r.method = IF PredictionSucceeded(h) THEN "ml_model" ELSE "formula"
                /\ ~PredictionSucceeded(h) =>
                       r.risk_score = round(calculate_formula_risk(handler[h].data), 3)

\* a request answered by the formula after the loaded model's predict
\* raised, and one answered by it after the artifact failed to deserialise
C11_Witness ==
    /\ \E h \in Workers :
          /\ Done(h)
          /\ handler[h].model = FailingModel
          /\ handler[h].response.method = "formula"
    /\ \E h \in Workers :
          /\ Done(h)
          /\ handler[h].fetched = Corrupt
          /\ handler[h].model = None
          /\ handler[h].response.method = "formula"

\* C12: every response carries a risk_score in [0,1], from the model or
\* from the formula, and its risk_level is the level of that score (low
\* below 0.3, moderate below 0.6, high otherwise).
C12_ScoreInUnitAndLevelOfScore ==
    \A h \in Workers :
        Done(h) =>
            LET r == handler[h].response
            IN  /\ IsPredictResponse(r)
                /\ RLe(R(0), r.risk_score) /\ RLe(r.risk_score, R(1))
                /\ r.risk_level =
                     (IF RLt(r.risk_score, Frac(3, 10)) THEN "low"
                      ELSE IF RLt(r.risk_score, Frac(6, 10)) THEN "moderate"
                      ELSE "high")

\* C13: the artifact of a user is fetched from the store at most once,
\* whatever the number of requests for that user.
C13_ModelFetchedOnce ==
    \A u \in PredictUsers : downloads[u] <= 1

\* load_ml_model of a request that runs alone
load_ml_model(stored) == IF stored.kind = "model" THEN stored ELSE None

ResponseAlone(data) ==
    predict_acl_risk(load_ml_model(storage[data.user_id]), data)

\* C14: a request that overlapped only requests of other users returns the
\* response it returns when run alone.
C14_DistinctUsersDoNotInterfere ==
    \A h \in Workers :
        (Done(h) /\ handler[h].data.user_id \notin handler[h].overlapped) =>
            handler[h].response = ResponseAlone(handler[h].data)

\* a request served by the model while a request of the other user was in
\* progress
C14_Witness ==
    \E h \in Workers :
        /\ Done(h)
        /\ handler[h].overlapped # {}
        /\ handler[h].data.user_id \notin handler[h].overlapped
        /\ handler[h].response.method = "ml_model"
        /\ \E g \in Workers \ {h} :
              /\ handler[g].data # None
              /\ handler[g].data.user_id # handler[h].data.user_id
              /\ handler[g].model # None
              /\ handler[g].model # handler[h].model

(***************************************************************************)
(* Properties of successive calls of the scoring engine.                   *)
(***************************************************************************)
SameInputs(a, b) == a.features = b.features /\ a.user = b.user

LoadSteps ==
    {R(-100), R(0), R(4999), R(5000), R(5001), R(12500), R(19999), R(20000),
     R(20001), R(30000)}

LoadAt(steps) == load_index([features EXCEPT !.avg_steps_day = steps])

C16_LoadIndexMonotone ==
    Scored =>
        /\ result.components.load.index = round(load_index(features), 3)
        /\ \A s \in LoadSteps \cup {avg_steps(features)} :
              /\ RLe(s, R(5000)) => LoadAt(s) = R(0)
              /\ RLe(R(20000), s) => LoadAt(s) = R(1)
              /\ RLe(s, avg_steps(features)) => RLe(LoadAt(s), load_index(features))
              /\ RLe(avg_steps(features), s) => RLe(load_index(features), LoadAt(s))

\* a load strictly between its ends, above the load at 12500 steps
C16_Witness ==
    /\ Scored
    /\ avg_steps(features) = R(18040)
    /\ result.components.load.index = Frac(869, 1000)
    /\ RLt(LoadAt(R(12500)), load_index(features))
    /\ RLt(load_index(features), LoadAt(R(20000)))

Recommended == pc = "done"

\* the rule (1 load .. 9 low confidence) that gives a note
RuleOf(note) ==
    IF note[1] \in {"reduce_volume", "monitor_load"} THEN 1
    ELSE IF note[1] \in {"sleep", "rest_day"} THEN 2
    ELSE IF note[1] = "active_recovery" THEN 3
    ELSE IF note[1] \in {"nutrition_high", "nutrition_low"} THEN 4
    ELSE IF note[1] \in {"urgent_pain", "moderate_pain"} THEN 5
    ELSE IF note[1] \in {"neuromuscular_training", "rehab_compliance"} THEN 6
    ELSE IF note[1] = "landing_mechanics" THEN 7
    ELSE IF note[1] = "prevention_program" THEN 8
    ELSE IF note[1] = "data_quality" THEN 9
    ELSE 0

InRuleOrder(q) ==
    /\ \A i \in 1..Len(q) : RuleOf(q[i]) \in 1..9
    /\ \A i, j \in 1..Len(q) : i < j => RuleOf(q[i]) <= RuleOf(q[j])

\* C17: at most 5 notes are returned, and they are the first 5 (or all) of
\* the list the nine rules give in their fixed order.
C17_FirstFiveInRuleOrder ==
    Recommended =>
        LET all == all_recommendations(result, features, user)
            n == IF Len(all) < 5 THEN Len(all) ELSE 5
        IN  /\ Len(recommendations) <= 5
            /\ InRuleOrder(all)
            /\ Len(recommendations) = n
            /\ \A i \in 1..n : recommendations[i] = all[i]

\* more than five rules fire and the later ones are dropped
C17_Witness ==
    /\ Recommended
    /\ Len(all_recommendations(result, features, user)) > 5
    /\ Len(recommendations) = 5
    /\ recommendations[1] = <<"reduce_volume">>
    /\ <<"urgent_pain", R(8)>> \in SeqToSet(all_recommendations(result, features, user))
    /\ <<"landing_mechanics", "Football">>
          \in SeqToSet(all_recommendations(result, features, user))
             \ SeqToSet(recommendations)

IsScenarioA == given = <<ScenarioFeatures, ScenarioAUser>>

IsScenarioB == given = <<ScenarioFeatures, ScenarioBUser>>

\* C18: Scenario A is scored Low with high confidence and no missing data.
C18_ScenarioA ==
    (IsScenarioA /\ result # None) =>
        /\ result.risk_level = "Low"
        /\ result.confidence = "high"
        /\ result.missing_data = <<>>

C18_Witness ==
    /\ IsScenarioA
    /\ pc = "scored"
    /\ result.risk_score = Frac(187, 10)
    /\ result.risk_level = "Low"

LevelRank(level) == IF level = "High" THEN 2 ELSE IF level = "Moderate" THEN 1 ELSE 0

\* C19: Scenario B is scored High, or at least in a higher level than
\* Scenario A with a score more than twice as high, and its recommendations
\* are at most 5 and contain the urgent knee-pain note and the ACL-history
\* note.
C19_ScenarioB ==
    (IsScenarioB /\ Recommended) =>
        LET scenario_a == compute_risk_score(ScenarioFeatures, ScenarioAUser)
        IN  /\ \/ result.risk_level = "High"
               \/ /\ LevelRank(result.risk_level) > LevelRank(scenario_a.risk_level)
                  /\ RLt(RMul(R(2), scenario_a.risk_score), result.risk_score)
            /\ Len(recommendations) <= 5
            /\ <<"urgent_pain", R(8)>> \in SeqToSet(recommendations)
            /\ <<"neuromuscular_training">> \in SeqToSet(recommendations)

C19_Witness ==
    /\ IsScenarioB
    /\ Recommended
    /\ result.risk_score = Frac(425, 10)
    /\ result.risk_level = "Moderate"
    /\ recommendations = << <<"urgent_pain", R(8)>>, <<"neuromuscular_training">>,
                            <<"rehab_compliance">>, <<"landing_mechanics", "Football">> >>

\* C20: risk_score = round(100 * adjusted, 1), adjusted being the weighted
\* sum of the six indices times (1 + 0.15 * sport_index), clamped, then
\* times 1.15 and clamped again exactly when sex is 'F'.
WeightedSum ==
    RAdd(RAdd(RAdd(RMul(Frac(30, 100), load_index(features)),
                   RMul(Frac(25, 100), fatigue_index(features, user))),
              RAdd(RMul(Frac(15, 100), intensity_index(features)),
                   RMul(Frac(10, 100), bmi_index(features, user)))),
         RAdd(RMul(Frac(10, 100), history_index(user)),
              RMul(Frac(5, 100), pain_index(user))))

SportAdjusted ==
    clamp01(RMul(WeightedSum, RAdd(R(1), RMul(Frac(15, 100), sport_index(user)))))

SexAdjusted ==
    IF sex(user) = "F" THEN clamp01(RMul(SportAdjusted, Frac(115, 100)))
    ELSE SportAdjusted

C20_ScoreFormula ==
    Scored => result.risk_score = round(RMul(R(100), SexAdjusted), 1)

\* a woman's score in a sport of known risk, raised by both adjustments
C20_Witness ==
    /\ Scored
    /\ sex(user) = "F"
    /\ RLt(R(0), sport_index(user))
    /\ RLt(WeightedSum, SportAdjusted)
    /\ RLt(SportAdjusted, SexAdjusted)
    /\ RLt(SexAdjusted, R(1))
    /\ ScoreWithSex("M") = ScoreWithSex("Other")
    /\ RLt(ScoreWithSex("Other"), result.risk_score)

(***************************************************************************)
(* Further properties of compute_risk_score.                               *)
(***************************************************************************)
SportIndexOf(name) == sport_index([user EXCEPT !.sport = name])

\* C22: the sport index is the table's factor over 0.25, looked up without
\* regard to letter case, and 0.2 (the index of 'none') for any other name.
C22_SportIndexLookup ==
    Scored =>
        /\ result.components.sport.index = round(SportIndexOf(user.sport), 3)
        /\ SportIndexOf("football") = R(1) /\ SportIndexOf("FOOTBALL") = R(1)
        /\ SportIndexOf("soccer") = Frac(4, 5) /\ SportIndexOf("Soccer") = Frac(4, 5)
        /\ SportIndexOf("basketball") = Frac(18, 25)
        /\ SportIndexOf("Basketball") = Frac(18, 25)
        /\ SportIndexOf("running") = Frac(8, 25) /\ SportIndexOf("RUNNING") = Frac(8, 25)
        /\ SportIndexOf("cycling") = Frac(3, 25) /\ SportIndexOf("Cycling") = Frac(3, 25)
        /\ SportIndexOf("none") = Frac(1, 5) /\ SportIndexOf("None") = Frac(1, 5)
        /\ SportIndexOf("rugby") = Frac(1, 5) /\ SportIndexOf("Rugby") = Frac(1, 5)
        /\ SportIndexOf("") = Frac(1, 5)

\* 'Soccer' with a capital is scored as soccer, 'rugby' as none
C22_Witness ==
    /\ Scored
    /\ user.sport = "Soccer"
    /\ result.components.sport.index = Frac(4, 5)
    /\ SportIndexOf("soccer") = result.components.sport.index
    /\ SportIndexOf("rugby") = Frac(1, 5)

BucketBaseline ==
    IF sex(user) = "F"
    THEN (IF RLt(age(user), R(30)) THEN R(68) ELSE R(70))
    ELSE (IF RLt(age(user), R(30)) THEN R(63) ELSE R(65))

ExpectedBaseline ==
    IF user.baseline_resting_hr # None THEN user.baseline_resting_hr
    ELSE BucketBaseline

\* C23: the baseline resting HR of the fatigue index and of the metadata is
\* the profile's when it gives one, otherwise 68 / 70 for F under / from 30
\* and 63 / 65 for M under / from 30.
C23_BaselineBuckets ==
    (Scored /\ sex(user) \in {"M", "F"}) =>
        /\ result.metadata.baseline_resting_hr = ExpectedBaseline
        /\ hr_present(features) =>
               hr_component(features, user) =
                   clamp01(RDiv(RSub(avg_resting_hr(features), ExpectedBaseline), R(8)))

\* a woman aged 30 without a baseline gets 70, and her HR of 71 counts 1/8
C23_Witness ==
    /\ Scored
    /\ sex(user) = "F"
    /\ age(user) = R(30)
    /\ user.baseline_resting_hr = None
    /\ result.metadata.baseline_resting_hr = R(70)
    /\ avg_resting_hr(features) = R(71)
    /\ hr_component(features, user) = Frac(1, 8)

\* C24: the fatigue index is the larger of the HR and the sleep
\* sub-components: never below either, not lowered below one signal by a
\* change of the other, and at least 0.5 when a signal is missing.
C24_FatigueIsWorstSignal ==
    Scored =>
        LET hr == hr_component(features, user)
            sl == sleep_component(features)
            fatigue == fatigue_index(features, user)
        IN  /\ RLe(hr, fatigue) /\ RLe(sl, fatigue)
            /\ fatigue \in {hr, sl}
            /\ result.components.fatigue.index = round(fatigue, 3)
            /\ \A h \in RestingHrValues :
                  RLe(sl, fatigue_index([features EXCEPT !.avg_resting_hr = h], user))
            /\ \A a \in AsleepValues :
                  RLe(hr, fatigue_index([features EXCEPT !.avg_minutes_asleep = a], user))
            /\ (~hr_present(features) \/ ~sleep_present(features)) =>
                   RLe(Frac(1, 2), fatigue)

\* the resting HR is missing and the night was long: the index is 0.5
C24_Witness ==
    /\ Scored
    /\ ~hr_present(features)
    /\ sleep_component(features) = R(0)
    /\ result.components.fatigue.index = Frac(1, 2)

\* C25: every entry of components carries an index, a weight (a multiplier
\* for sport), a contribution and a description, and the contribution
\* reported equals the index reported times the weight reported.
C25_ComponentsComplete ==
    Scored =>
        \A c \in ComponentNames :
            LET entry == result.components[c]
                factor == IF "weight" \in DOMAIN entry THEN entry.weight
                          ELSE entry.multiplier
            IN  /\ {"index", "description"} \subseteq DOMAIN entry
                /\ "weight" \in DOMAIN entry \/ (c = "sport" /\ "multiplier" \in DOMAIN entry)
                /\ "contribution" \in DOMAIN entry
                /\ entry.contribution = RMul(entry.index, factor)

\* C29: confidence is 'high' exactly when missing_data is empty, and
\* missing_data holds no duplicate and only the three known names.
C29_HighIffNothingMissing ==
    Scored =>
        /\ (result.confidence = "high") <=> (result.missing_data = <<>>)
        /\ Cardinality(SeqToSet(result.missing_data)) = Len(result.missing_data)
        /\ SeqToSet(result.missing_data)
              \subseteq {"resting_heart_rate", "sleep_data", "insufficient_activity_data"}

\* all signals present but under 1000 steps: low confidence, one entry
C29_Witness ==
    /\ Scored
    /\ hr_present(features) /\ sleep_present(features)
    /\ result.confidence = "low"
    /\ result.missing_data = <<"insufficient_activity_data">>

\* C28: whenever knee_pain_score is 5 or more, the list returned by
\* generate_recommendations contains the urgent knee-pain note.
C28_UrgentPainNoteKept ==
    (Recommended /\ RLe(R(5), knee_pain(user))) =>
        \E i \in 1..Len(recommendations) : recommendations[i][1] = "urgent_pain"

\* C30: two overlapping requests of the same user, whose stored artifact is
\* a model that predicts, are both answered by the model with its score.
C30_SameUserBothServedByModel ==
    \A h \in Workers :
        LET data == handler[h].data
        IN  (/\ Done(h)
             /\ data.user_id \in handler[h].overlapped
             /\ storage[data.user_id].kind = "model"
             /\ storage[data.user_id].predict[1] = "return") =>
                /\ handler[h].response.method = "ml_model"
                /\ handler[h].response.risk_score =
                       round(storage[data.user_id].predict[2], 3)

\* C21: a stored user whose optional profile fields are all null gets, with
\* 3 records or more, a successful assessment computed with the defaults
\* (sex M, age 25, the population baseline 63, BMI 70 / 1.7^2, sport none,
\* no ACL history, pain 0).
C21_NullProfileScoredWithDefaults ==
    Answered =>
        \A u \in RequestedActive :
            RecentCount(u) >= 3 =>
                /\ Get(response, "status", None) = "success"
                /\ response.metadata.sex = "M"
                /\ response.metadata.age = R(25)
                /\ response.metadata.baseline_resting_hr = R(63)
                /\ response.metadata.bmi = round(RDiv(R(70), Frac(289, 100)), 1)
                /\ response.component_details.sport.index = Frac(1, 5)
                /\ response.component_details.history.index = R(0)
                /\ response.component_details.pain.index = R(0)


(***************************************************************************)
(* Properties of the sync-and-assess and account endpoints.                *)
(***************************************************************************)
\* what Fitbit reported for a day
FitbitSteps(day) == day.activity.summary.steps

FitbitRestingHr(day) == day.heart["activities-heart"][1].value.restingHeartRate

FitbitAsleep(day) == day.sleep.summary.totalMinutesAsleep

\* the last request was a sync-and-assess of an active user whose token
\* was usable and every fetch of the three days succeeded
SyncedAllDays ==
    /\ request # None
    /\ request.endpoint = "sync-and-assess"
    /\ request.upstream.token # "refresh_fails"
    /\ \A i \in 0..(SyncDays - 1) : request.upstream.fitbit[i] # HTTPStatusError
    /\ \E u \in users : u.fitbit_user_id = request.user_id /\ u.is_active

\* C26: after sync_and_assess with every Fitbit fetch succeeding, the stored
\* activity records of the last 3 days hold the steps, resting heart rate
\* and minutes asleep Fitbit reported for those days, and the returned
\* assessment is the one computed from the stored records.
C26_SyncStoresFitbitValues ==
    SyncedAllDays =>
        \A u \in {w \in users : w.fitbit_user_id = request.user_id} :
            /\ \A i \in 0..(SyncDays - 1) :
                 \E d \in activity_data :
                    /\ d.user_id = u.id
                    /\ d.date = today - i
                    /\ d.steps = FitbitSteps(request.upstream.fitbit[i])
                    /\ d.resting_heart_rate = FitbitRestingHr(request.upstream.fitbit[i])
                    /\ d.sleep_duration_minutes = FitbitAsleep(request.upstream.fitbit[i])
            /\ response =
                 get_realtime_risk_assessment(users, activity_data, today,
                                              request.user_id).response

\* the last request was one of the two assessment requests
AssessmentRequested ==
    /\ request # None
    /\ request.endpoint \in {"realtime", "sync-and-assess"}

====
